---- MODULE Spec2Model ----
(***************************************************************************)
(* A model of apache_beam/runners/common.py: the DoFn invokers              *)
(* (SimpleInvoker, PerWindowInvoker), the output processor and the bundle   *)
(* driver (DoFnRunner).                                                     *)
(*                                                                          *)
(* Spec       the sequential bundle driver: create_invoker, start, process, *)
(*            finish, with the output processor.                            *)
(* SpecSplit  a splittable DoFn processed element by element while a        *)
(*            control thread calls try_split / current_element_progress.    *)
(* SpecAugment  drivers nested through their receivers, and the exception   *)
(*            that leaves their operations.                                 *)
(* SpecBundle the elements of a bundle processed one after the other by one *)
(*            driver and one invoker.                                       *)
(***************************************************************************)
EXTENDS Integers, Sequences, FiniteSets, TLC

VARIABLES
  pc,          \* position of the bundle driver: "new" before create_invoker, then "ready"
  cfg,         \* the arguments create_invoker was called with
  invoker,     \* the invoker create_invoker returned
  lastOp,      \* the last driver operation and its inputs
  heap,        \* the result objects the DoFn method returned (id -> object)
  calls,       \* the DoFn.process invocations of the last operation, in order
  receivers,   \* tag -> the WindowedValues received during the last operation
  log,         \* calls and deliveries of the last operation, in order
  fault,       \* the exception that ended the last operation, or NoFault
  bundle,      \* the elements processed so far in this bundle (SpecBundle)
  context,     \* DoFnContext.windowed_value of the driver's context
  \* the splittable run (SpecSplit)
  threadsafe_restriction_tracker,  \* PerWindowInvoker's field: 0 (None) or a handle
  current_windowed_value,          \* PerWindowInvoker's field
  estimator,   \* the DoFn's watermark estimator
  trackers,    \* the restriction tracker made for each element
  lockOwner,   \* per tracker handle: the thread that holds its lock
  inside,      \* the tracker operations in progress: <<thread, tracker, via>>
  proc,        \* the processing thread: its position and locals
  ctl,         \* the control thread: its position and locals
  \* faults leaving nested drivers (SpecAugment)
  runners,     \* the driver operations in progress, outermost first
  exn          \* the exception in flight or the one that left the drivers

opVars ==
  <<pc, cfg, invoker, lastOp, heap, calls, receivers, log, fault, bundle>>
driverVars == <<opVars, context>>
sdfVars ==
  <<threadsafe_restriction_tracker, current_windowed_value, estimator, trackers,
    lockOwner, inside, proc, ctl>>
augVars == <<runners, exn>>
vars == <<driverVars, sdfVars, augVars>>

(***************************************************************************)
(* Bounds of the model.                                                     *)
(***************************************************************************)
MaxWindows == 2
MaxResults == 2
NumElements == 2     \* elements of the splittable bundle
MaxWork == 2         \* positions of an element's initial restriction
MaxWatermark == 2    \* how far the estimator's watermark advances
MaxNesting == 2      \* drivers that receive one another's outputs
BundleSize == 2      \* elements of the bundle processed one after another

(***************************************************************************)
(* Values.  Python's None is a value of each type it can stand for.         *)
(***************************************************************************)
None == "None"
NoFault == "none"

Windows == {"w1", "w2"}
GlobalWindow == "GlobalWindow"
Timestamps == {1, 2}
\* "kv" stands for a (key, value) pair, "a" for a value that is no pair.
Elements == {"a", "kv"}
IsKV(v) == v = "kv"
KeyOf(v) == "k"

\* WindowedValue(value, timestamp, windows, pane_info)
WindowedValue(v, t, ws, p) ==
  [value |-> v, timestamp |-> t, windows |-> ws, pane_info |-> p]
NoWindowedValue == WindowedValue(None, 0, <<>>, None)
\* The pane info WindowedValue() takes when none is given.
PANE_INFO_UNKNOWN == "UNKNOWN"
with_value(wv, v) == [wv EXCEPT !.value = v]

SeqsUpTo(S, n) == UNION {[1..k -> S] : k \in 0..n}
WindowSeqs == SeqsUpTo(Windows, MaxWindows) \ {<<>>}

RECURSIVE Repeat(_, _)
\* Python's tuple * n
Repeat(s, n) == IF n <= 0 THEN <<>> ELSE s \o Repeat(s, n - 1)

(***************************************************************************)
(* DoFn signature and invoker selection.                                    *)
(***************************************************************************)
WindowParam == "WindowParam"
TimestampParam == "TimestampParam"
KeyParam == "KeyParam"
ElementParam == "ElementParam"
\* The defaults a process method may declare (core.DoFn parameters).
Params == {WindowParam, TimestampParam, KeyParam}
SideInputKinds == {"global", "windowed"}
\* what stands in args_for_process where a side input goes, until
\* insert_values_in_args puts the side input there
ArgumentPlaceholder == <<"ArgumentPlaceholder", "ArgumentPlaceholder">>

Configs ==
  [process_invocation : BOOLEAN,
   side_inputs : {<<>>} \cup {<<k>> : k \in SideInputKinds},
   input_args : BOOLEAN,          \* input_args is non-empty
   input_kwargs : BOOLEAN,        \* input_kwargs is non-empty
   defaults : SUBSET Params,      \* signature.process_method.defaults
   stateful : BOOLEAN]            \* signature.is_stateful_dofn()

NoInvoker ==
  [kind |-> "none", has_windowed_inputs |-> FALSE,
   cache_globally_windowed_args |-> FALSE, is_key_param_required |-> FALSE,
   user_state_context |-> FALSE, placeholders |-> {}, side_inputs |-> <<>>,
   cached_side |-> <<>>]

SimpleInvoker(c) == [NoInvoker EXCEPT !.kind = "Simple"]

\* PerWindowInvoker.__init__
PerWindowInvoker(c) ==
  LET hwi == (\E i \in DOMAIN c.side_inputs : c.side_inputs[i] # "global")
             \/ WindowParam \in c.defaults
             \/ c.stateful
  IN [kind |-> "PerWindow",
      has_windowed_inputs |-> hwi,
      cache_globally_windowed_args |-> ~hwi,
      is_key_param_required |-> KeyParam \in c.defaults,
      user_state_context |-> c.stateful,
      placeholders |-> {ElementParam} \cup (c.defaults \cap Params),
      side_inputs |-> c.side_inputs,
      cached_side |-> [i \in DOMAIN c.side_inputs |-> ArgumentPlaceholder]]

use_simple_invoker_IgnoresStateful(c) ==
  ~c.process_invocation
  \/ (c.side_inputs = <<>> /\ ~c.input_args /\ ~c.input_kwargs
      /\ c.defaults = {})

use_simple_invoker(c) ==
  ~c.process_invocation
  \/ (c.side_inputs = <<>> /\ ~c.input_args /\ ~c.input_kwargs
      /\ c.defaults = {} /\ ~c.stateful)

\* DoFnInvoker.create_invoker
create_invoker(c) ==
  IF use_simple_invoker(c) THEN SimpleInvoker(c) ELSE PerWindowInvoker(c)

(***************************************************************************)
(* What a DoFn method returns: None, or a sequence of result objects.  A    *)
(* result object is a plain value, a WindowedValue or a TimestampedValue,   *)
(* possibly wrapped in a TaggedOutput.  The same object may be returned     *)
(* more than once, so results are ids into a heap of objects.               *)
(***************************************************************************)
RegisteredTags == {"side"}
NonStringTag == "<int 7>"
Tags == RegisteredTags \cup {"errors", NonStringTag}
\* isinstance(tag, (str, unicode))
IsString(tag) == tag # NonStringTag

RawResult(tagged, tag, kind, v, t, ws, p) ==
  [tagged |-> tagged, tag |-> tag, kind |-> kind, value |-> v,
   timestamp |-> t, windows |-> ws, pane_info |-> p]
PlainResults ==
  {RawResult(FALSE, None, "plain", "x", 0, <<>>, None)}
  \cup {RawResult(TRUE, tg, "plain", "x", 0, <<>>, None) : tg \in Tags}
WindowedResults ==
  {RawResult(FALSE, None, "wv", "y", 2, <<"w2">>, "p2"),
   RawResult(TRUE, "side", "wv", "y", 2, <<"w2">>, "p2")}
TimestampedResults ==
  {RawResult(FALSE, None, "tv", "z", 2, <<>>, None)}
RawResults == PlainResults \cup WindowedResults \cup TimestampedResults

\* ids label the objects in order of first occurrence
IsCanonical(ids, m) ==
  /\ {ids[i] : i \in DOMAIN ids} = 1..m
  /\ \A i \in DOMAIN ids : \A k \in 1..(ids[i] - 1) : \E j \in 1..(i - 1) : ids[j] = k

NoResults == [isNone |-> TRUE, items |-> <<>>, objects |-> <<>>]
ResultInputs ==
  {NoResults} \cup
  {[isNone |-> FALSE, items |-> ids, objects |-> h] :
     <<ids, h>> \in {x \in SeqsUpTo(1..MaxResults, MaxResults)
                           \X SeqsUpTo(RawResults, MaxResults) :
                        IsCanonical(x[1], Len(x[2]))}}

\* WindowFn.assign at a timestamp (fixed windows at 1, sliding windows at 2)
WindowFnAssign(t) == IF t = 1 THEN <<"w1">> ELSE <<"w1", "w2">>

(***************************************************************************)
(* _OutputProcessor.  st is the state an operation works on:                *)
(* [inv, heap, calls, recv, log, fault, lookupFails, lookups, context].     *)
(* Every logged event records what the context held when it happened.       *)
(***************************************************************************)
ReceiverTags == {None} \cup RegisteredTags
NoReceived == [tg \in ReceiverTags |-> <<>>]

Raise(st, e) == [st EXCEPT !.fault = e]

Receive_DefaultsToMain(st, tag, wv, callNo) ==
  LET to == IF tag \in ReceiverTags THEN tag ELSE None
  IN [st EXCEPT !.recv[to] = Append(@, wv),
                !.log = Append(@, [ev |-> "recv", n |-> callNo, tag |-> to,
                                   value |-> wv.value,
                                   context |-> st.context])]

\* self.main_receivers.receive / self.tagged_receivers[tag].receive
Receive(st, tag, wv, callNo) ==
  IF tag \notin ReceiverTags
    THEN Raise(st, "KeyError")
    ELSE [st EXCEPT !.recv[tag] = Append(@, wv),
                    !.log = Append(@, [ev |-> "recv", n |-> callNo, tag |-> tag,
                                       value |-> wv.value,
                                       context |-> st.context])]

AsWindowedValue(obj) ==
  WindowedValue(obj.value, obj.timestamp, obj.windows, obj.pane_info)

\* windowed_value.windows *= len(windowed_input_element.windows)
MultiplyWindows(ws, input) == Repeat(ws, Len(input.windows))

OutputValue_FirstWindowOnly(input, obj) ==
  IF obj.kind = "plain"
    THEN WindowedValue(obj.value, input.timestamp, <<input.windows[1]>>,
                       input.pane_info)
    ELSE AsWindowedValue(obj)

\* the windowed_value process_outputs hands to the receiver for a result
\* object (a WindowedValue result has had its windows multiplied already)
OutputValue(input, obj) ==
  CASE obj.kind = "wv" -> AsWindowedValue(obj)
    [] obj.kind = "tv" ->
         LET w == WindowedValue(obj.value, obj.timestamp,
                                WindowFnAssign(obj.timestamp), PANE_INFO_UNKNOWN)
         IN IF Len(input.windows) # 1
              THEN [w EXCEPT !.windows = MultiplyWindows(@, input)]
              ELSE w
    [] OTHER -> with_value(input, obj.value)

\* the body of the loop of process_outputs, for the result object id
ProcessOneOutput(input, id, st, callNo) ==
  LET obj == st.heap[id]
  IN IF obj.tagged /\ ~IsString(obj.tag)
       THEN Raise(st, "TypeError")
       ELSE
         LET st2 == IF obj.kind = "wv" /\ input # NoWindowedValue
                       /\ Len(input.windows) # 1
                      THEN [st EXCEPT !.heap[id].windows = MultiplyWindows(@, input)]
                      ELSE st
         IN Receive(st2, IF obj.tagged THEN obj.tag ELSE None,
                    OutputValue(input, st2.heap[id]), callNo)

RECURSIVE ProcessOutputsFrom_LastFirst(_, _, _, _, _)
ProcessOutputsFrom_LastFirst(input, items, i, st, callNo) ==
  IF i > Len(items) \/ st.fault # NoFault
    THEN st
    ELSE LET rest == ProcessOutputsFrom_LastFirst(input, items, i + 1, st, callNo)
         IN IF rest.fault # NoFault
              THEN rest
              ELSE ProcessOneOutput(input, items[i], rest, callNo)

RECURSIVE ProcessOutputsFrom(_, _, _, _, _)
ProcessOutputsFrom(input, items, i, st, callNo) ==
  IF i > Len(items) \/ st.fault # NoFault
    THEN st
    ELSE ProcessOutputsFrom(input, items, i + 1,
                            ProcessOneOutput(input, items[i], st, callNo), callNo)

\* _OutputProcessor.process_outputs
process_outputs(input, res, st, callNo) ==
  IF res.isNone THEN st ELSE ProcessOutputsFrom(input, res.items, 1, st, callNo)

\* _OutputProcessor.start_bundle_outputs
start_bundle_outputs(res, st) ==
  IF res.isNone THEN st ELSE Raise(st, "RuntimeError")

FinishOneOutput_WrapsPlain(id, st) ==
  LET obj == st.heap[id]
  IN IF obj.tagged /\ ~IsString(obj.tag)
       THEN Raise(st, "TypeError")
       ELSE Receive(st, IF obj.tagged THEN obj.tag ELSE None,
                    AsWindowedValue(obj), 0)

\* the body of the loop of finish_bundle_outputs
FinishOneOutput(id, st) ==
  LET obj == st.heap[id]
  IN IF obj.tagged /\ ~IsString(obj.tag)
       THEN Raise(st, "TypeError")
       ELSE IF obj.kind = "wv"
         THEN Receive(st, IF obj.tagged THEN obj.tag ELSE None,
                      AsWindowedValue(obj), 0)
         ELSE Raise(st, "RuntimeError")

RECURSIVE FinishOutputsFrom(_, _, _)
FinishOutputsFrom(items, i, st) ==
  IF i > Len(items) \/ st.fault # NoFault
    THEN st
    ELSE FinishOutputsFrom(items, i + 1, FinishOneOutput(items[i], st))

\* _OutputProcessor.finish_bundle_outputs
finish_bundle_outputs(res, st) ==
  IF res.isNone THEN st ELSE FinishOutputsFrom(res.items, 1, st)

(***************************************************************************)
(* Invoking DoFn.process.  The DoFn returns res on every call and raises    *)
(* on its failAt-th call of the operation (0: never).                       *)
(***************************************************************************)
NoTimestamp == 0
SideInputLookup(kind, window) == <<kind, window>>

\* self.process_method(*args_for_process, **kwargs_for_process)
CallProcess(st, args, failAt) ==
  LET st1 == [st EXCEPT !.calls = Append(@, args),
                        !.log = Append(@, [ev |-> "call", n |-> Len(st.calls) + 1,
                                           tag |-> None, value |-> args.element,
                                           context |-> st.context])]
  IN IF failAt = Len(st1.calls) THEN Raise(st1, "UserError") ELSE st1

\* SimpleInvoker.invoke_process
SimpleInvokeProcess(wv, res, failAt, st) ==
  LET st1 == CallProcess(st, [element |-> wv.value, key |-> None, window |-> None,
                              timestamp |-> NoTimestamp, side |-> <<>>,
                              input |-> wv], failAt)
  IN IF st1.fault # NoFault
       THEN st1
       ELSE process_outputs(wv, res, st1, Len(st1.calls))

\* the side inputs of one invocation and the invoker with its cache filled,
\* or the fault of a side input whose lookup raises (lookupFails); lookups
\* counts the si[window] evaluated, the first of which raises if one does
BindSideInputs(inv, wv, lookupFails) ==
  LET raises == lookupFails /\ inv.side_inputs # <<>>
      looked == IF raises THEN 1 ELSE Len(inv.side_inputs)
  IN IF inv.has_windowed_inputs
       THEN [inv |-> inv,
             side |-> [i \in DOMAIN inv.side_inputs |->
                         SideInputLookup(inv.side_inputs[i], wv.windows[1])],
             fault |-> IF raises THEN "SideInputError" ELSE NoFault,
             lookups |-> looked]
       ELSE IF inv.cache_globally_windowed_args
         THEN LET side == [i \in DOMAIN inv.side_inputs |->
                             SideInputLookup(inv.side_inputs[i], GlobalWindow)]
                  \* the flag is cleared before the side inputs are looked up
                  inv1 == [inv EXCEPT !.cache_globally_windowed_args = FALSE]
              IN IF raises
                   THEN [inv |-> inv1, side |-> inv1.cached_side,
                         fault |-> "SideInputError", lookups |-> looked]
                   ELSE [inv |-> [inv1 EXCEPT !.cached_side = side],
                         side |-> side, fault |-> NoFault, lookups |-> looked]
         ELSE [inv |-> inv, side |-> inv.cached_side, fault |-> NoFault,
               lookups |-> 0]

\* the placeholders of args_for_process filled for one invocation
BindArgs(inv, wv, side) ==
  [element |-> wv.value,
   key |-> IF KeyParam \in inv.placeholders THEN KeyOf(wv.value) ELSE None,
   window |-> IF WindowParam \in inv.placeholders THEN wv.windows[1] ELSE None,
   timestamp |-> IF TimestampParam \in inv.placeholders
                   THEN wv.timestamp ELSE NoTimestamp,
   side |-> side,
   input |-> wv]

invoke_process_per_window_OutputsFirst(wv, res, failAt, st) ==
  LET b == BindSideInputs(st.inv, wv, st.lookupFails)
      st1 == process_outputs(wv, res, [st EXCEPT !.inv = b.inv],
                             Len(st.calls) + 1)
  IN IF st1.fault # NoFault
       THEN st1
       ELSE CallProcess(st1, BindArgs(st1.inv, wv, b.side), failAt)

\* PerWindowInvoker._invoke_process_per_window, without a restriction tracker
invoke_process_per_window(wv, res, failAt, st) ==
  LET b == BindSideInputs(st.inv, wv, st.lookupFails)
      st1 == [st EXCEPT !.inv = b.inv, !.lookups = @ + b.lookups]
  IN IF b.fault # NoFault
       THEN Raise(st1, b.fault)
     ELSE IF (st1.inv.user_state_context \/ st1.inv.is_key_param_required)
        /\ ~IsKV(wv.value)
       THEN Raise(st1, "ValueError")
       ELSE LET st2 == CallProcess(st1, BindArgs(st1.inv, wv, b.side), failAt)
            IN IF st2.fault # NoFault
                 THEN st2
                 ELSE process_outputs(wv, res, st2, Len(st2.calls))

\* the windowed value invoke_process builds for one window of its input
ExplodedValue(wv, w) ==
  WindowedValue(wv.value, wv.timestamp, <<w>>, PANE_INFO_UNKNOWN)

RECURSIVE InvokeEachWindow(_, _, _, _, _)
InvokeEachWindow(wv, i, res, failAt, st) ==
  IF i > Len(wv.windows) \/ st.fault # NoFault
    THEN st
    ELSE InvokeEachWindow(wv, i + 1, res, failAt,
           invoke_process_per_window(ExplodedValue(wv, wv.windows[i]),
                                     res, failAt, st))

PerWindowInvokeProcess_NoExplode(wv, res, failAt, st) ==
  invoke_process_per_window(wv, res, failAt, st)

\* DoFnContext.set_element
set_element(st, wv) == [st EXCEPT !.context = wv]

\* PerWindowInvoker.invoke_process of a DoFn that is not splittable
PerWindowInvokeProcess(wv, res, failAt, st) ==
  LET st0 == set_element(st, wv)
  IN IF st0.inv.has_windowed_inputs /\ Len(wv.windows) # 1
       THEN InvokeEachWindow(wv, 1, res, failAt, st0)
       ELSE invoke_process_per_window(wv, res, failAt, st0)

invoke_process(wv, res, failAt, st) ==
  IF st.inv.kind = "Simple"
    THEN SimpleInvokeProcess(wv, res, failAt, st)
    ELSE PerWindowInvokeProcess(wv, res, failAt, st)

(***************************************************************************)
(* Splittable processing.  The restriction provider, the tracker and the    *)
(* watermark estimator are collaborators: a restriction is a range of       *)
(* positions [lo, hi), the tracker claims positions in order, and           *)
(* try_split(0) splits at the first unclaimed position.                     *)
(***************************************************************************)
NoWatermark == -1
Restriction(lo, hi) == [lo |-> lo, hi |-> hi]
NoRestriction == Restriction(0, 0)

\* invoke_initial_restriction, invoke_create_tracker
NewTracker ==
  [restriction |-> Restriction(0, MaxWork), pos |-> 0,
   deferred |-> FALSE, residual |-> NoRestriction, watermark |-> NoWatermark]

\* RestrictionProvider.restriction_size(element, restriction)
restriction_size(element, r) == [size_of |-> element, len |-> r.hi - r.lo]

\* the i-th element of the bundle: every second one is in two windows
SdfElement(i) ==
  WindowedValue("e" \o ToString(i), i,
                IF i % 2 = 0 THEN <<"w1", "w2">> ELSE <<"w1">>, "p1")

\* Tracker.try_split(fraction): [ok, primary, residual, tracker]
TrackerTrySplit(t, fraction) ==
  LET at == IF fraction = 0 THEN t.pos ELSE t.restriction.hi
  IN [ok |-> at < t.restriction.hi,
      primary |-> Restriction(t.restriction.lo, at),
      residual |-> Restriction(at, t.restriction.hi),
      tracker |-> IF at < t.restriction.hi
                    THEN [t EXCEPT !.restriction.hi = at] ELSE t]

\* the view's try_claim: claims the next position, if one is left
TrackerTryClaim(t) ==
  IF t.pos < t.restriction.hi THEN [t EXCEPT !.pos = @ + 1] ELSE t

\* the view's defer_remainder: the unclaimed rest becomes the deferred residual
TrackerDeferRemainder(t, wm) ==
  LET sp == TrackerTrySplit(t, 0)
  IN IF sp.ok /\ ~t.deferred
       THEN [sp.tracker EXCEPT !.deferred = TRUE, !.residual = sp.residual,
                               !.watermark = wm]
       ELSE t

\* Tracker.check_done raises when unclaimed work is left
TrackerCheckDoneRaises(t) == t.pos < t.restriction.hi

NoSplit == [ok |-> FALSE, primary |-> NoRestriction, residual |-> NoRestriction]
\* (windowed_value.with_value(((element, restriction), size)), watermark)
Descriptor(wv, element, r, wm) ==
  [timestamp |-> wv.timestamp, windows |-> wv.windows,
   pane_info |-> wv.pane_info, element |-> element, restriction |-> r,
   size |-> restriction_size(element, r), watermark |-> wm]
NoDescriptor == Descriptor(NoWindowedValue, None, NoRestriction, NoWatermark)
ProcIdle ==
  [pc |-> "idle", cur |-> 0, deferred_status |-> FALSE, fault |-> NoFault,
   returned |-> FALSE, residual |-> NoDescriptor,
   deferred_watermark |-> NoWatermark, trace |-> <<>>]
CtlIdle ==
  [pc |-> "idle", op |-> "none", fraction |-> 0, restriction_tracker |-> 0,
   current_windowed_value |-> NoWindowedValue, current_watermark |-> NoWatermark,
   readResets |-> 0, split |-> NoSplit, element |-> None,
   isNone |-> TRUE, primary |-> NoDescriptor, residual |-> NoDescriptor,
   progress |-> 0]

(***************************************************************************)
(* Faults leaving the driver.  An exception is [type, annotations, tagged,  *)
(* rebuildable, through]: annotations are the step names appended to its    *)
(* message, tagged is its _tagged_with_step attribute, rebuildable says     *)
(* whether type(exn)(message, ...) builds an exception that takes the       *)
(* attribute, and through lists the driver operations it has left so far,   *)
(* innermost first.                                                         *)
(***************************************************************************)
StepNames == {None, "s1", "s2"}
Operations ==
  {"setup", "start", "process", "process_with_sized_restriction",
   "process_user_timer", "finish", "teardown", "try_split",
   "current_element_progress", "finalize"}
\* the operations whose body is wrapped in try / except BaseException
Augmenting ==
  {"setup", "start", "process", "process_user_timer", "finish", "teardown"}
\* the operations that hand outputs to the receivers
Delivering ==
  {"process", "process_with_sized_restriction", "process_user_timer", "finish"}

NoExn ==
  [type |-> None, annotations |-> <<>>, tagged |-> FALSE, rebuildable |-> FALSE,
   through |-> <<>>]
NewExn(rebuildable) ==
  [NoExn EXCEPT !.type = "UserError", !.rebuildable = rebuildable]

reraise_augmented_IgnoresTag(e, step_name) ==
  IF step_name = None
    THEN e
    ELSE [e EXCEPT !.annotations = Append(@, step_name), !.tagged = TRUE]

\* DoFnRunner._reraise_augmented
reraise_augmented(e, step_name) ==
  IF e.tagged \/ step_name = None
    THEN e
    ELSE IF e.rebuildable
      THEN [e EXCEPT !.annotations = Append(@, step_name), !.tagged = TRUE]
      ELSE [e EXCEPT !.type = "RuntimeError",
                     !.annotations = Append(@, step_name),
                     !.tagged = TRUE, !.rebuildable = TRUE]

\* the exception as it leaves the operation r of a driver
LeaveOperation(e, r) ==
  LET out == IF r.op \in Augmenting THEN reraise_augmented(e, r.step_name) ELSE e
  IN [out EXCEPT !.through = Append(@, r)]

\* no driver operation is in progress and no exception is in flight
AugIdle ==
  /\ runners = <<>>
  /\ exn = NoExn

(***************************************************************************)
(* The bundle driver (DoFnRunner), one action per operation.                *)
(***************************************************************************)
InputValues ==
  {WindowedValue(e, 1, ws, "p1") : e \in Elements, ws \in WindowSeqs}

NoOp == [op |-> "none", input |-> NoWindowedValue, results |-> NoResults, failAt |-> 0]
NoConfig ==
  [process_invocation |-> TRUE, side_inputs |-> <<>>, input_args |-> FALSE,
   input_kwargs |-> FALSE, defaults |-> {}, stateful |-> FALSE]

\* the state an operation starts from
OpState(res) ==
  [inv |-> invoker, heap |-> res.objects, calls |-> <<>>, recv |-> NoReceived,
   log |-> <<>>, fault |-> NoFault, lookupFails |-> FALSE, lookups |-> 0,
   context |-> context]

\* DoFnRunner._invoke_bundle_method: self.context.set_element(None), then the
\* bundle method
BundleMethodState(res) == set_element(OpState(res), NoWindowedValue)

Finished(op, st) ==
  /\ lastOp' = op
  /\ invoker' = st.inv
  /\ heap' = st.heap
  /\ calls' = st.calls
  /\ receivers' = st.recv
  /\ log' = st.log
  /\ fault' = st.fault
  /\ context' = st.context
  /\ pc' = "done"
  /\ UNCHANGED <<cfg, bundle, sdfVars, augVars>>

\* no element has been processed and no driver operation has run
DriverIdle ==
  /\ lastOp = NoOp
  /\ heap = <<>>
  /\ calls = <<>>
  /\ receivers = NoReceived
  /\ log = <<>>
  /\ fault = NoFault
  /\ bundle = <<>>
  /\ context = NoWindowedValue

\* the fields PerWindowInvoker.__init__ sets for splitting, before any element
SdfIdle(withEstimator) ==
  /\ threadsafe_restriction_tracker = 0
  /\ current_windowed_value = NoWindowedValue
  /\ estimator = [present |-> withEstimator, watermark |-> 0, resets |-> 0]
  /\ trackers = [i \in 1..NumElements |-> NewTracker]
  /\ lockOwner = [i \in 1..NumElements |-> "none"]
  /\ inside = {}
  /\ proc = ProcIdle
  /\ ctl = CtlIdle

Init ==
  /\ pc = "new"
  /\ cfg = NoConfig
  /\ invoker = NoInvoker
  /\ DriverIdle
  /\ SdfIdle(FALSE)
  /\ AugIdle

\* DoFnInvoker.create_invoker(signature, ..., side_inputs, input_args,
\* input_kwargs, process_invocation)
CreateInvoker ==
  /\ pc = "new"
  /\ \E c \in Configs :
       /\ cfg' = c
       /\ invoker' = create_invoker(c)
  /\ pc' = "created"
  /\ UNCHANGED <<lastOp, heap, calls, receivers, log, fault, bundle, context,
                 sdfVars, augVars>>

\* DoFnRunner.__init__ returns: the runner keeps do_fn_invoker, made with
\* process_invocation left at its default, and none of the arguments.
RunnerInit ==
  /\ pc = "created"
  /\ cfg.process_invocation
  /\ pc' = "ready"
  /\ cfg' = NoConfig
  /\ UNCHANGED <<invoker, lastOp, heap, calls, receivers, log, fault, bundle,
                 context, sdfVars, augVars>>

\* DoFnRunner.start
Start ==
  /\ pc = "ready"
  /\ \E res \in ResultInputs :
       Finished([op |-> "start", input |-> NoWindowedValue, results |-> res,
                 failAt |-> 0],
                start_bundle_outputs(res, BundleMethodState(res)))

\* DoFnRunner.process.  The caller of Spec gives the driver one element per
\* bundle: an element comes when the context holds none, that is after
\* __init__, start or finish (bundles of several elements are SpecBundle's).
Process ==
  /\ pc = "ready"
  /\ context = NoWindowedValue
  /\ \E wv \in InputValues, res \in ResultInputs, failAt \in 0..MaxWindows :
       Finished([op |-> "process", input |-> wv, results |-> res,
                 failAt |-> failAt],
                invoke_process(wv, res, failAt, OpState(res)))

\* DoFnRunner.finish
Finish ==
  /\ pc = "ready"
  /\ \E res \in ResultInputs :
       Finished([op |-> "finish", input |-> NoWindowedValue, results |-> res,
                 failAt |-> 0],
                finish_bundle_outputs(res, BundleMethodState(res)))

\* The operation has returned (or raised) to the caller of the driver and the
\* receivers have consumed what they were given.
Return ==
  /\ pc = "done"
  /\ pc' = "ready"
  /\ lastOp' = NoOp
  /\ heap' = <<>>
  /\ calls' = <<>>
  /\ receivers' = NoReceived
  /\ log' = <<>>
  /\ fault' = NoFault
  /\ UNCHANGED <<cfg, invoker, bundle, context, sdfVars, augVars>>

Next == CreateInvoker \/ RunnerInit \/ Start \/ Process \/ Finish \/ Return

Spec == Init /\ [][Next]_vars

(***************************************************************************)
(* SpecSplit: a splittable DoFn.  The processing thread runs invoke_process *)
(* for one element after the other; the control thread calls try_split and  *)
(* current_element_progress at any time.  A step is one access to a field   *)
(* the two threads share, or the entry to or the exit from an operation of  *)
(* a tracker.                                                               *)
(***************************************************************************)
RestrictionParam == "RestrictionParam"
SdfConfig == [NoConfig EXCEPT !.defaults = {RestrictionParam}]
\* the splittable DoFn's process may also take the window
SdfConfigs ==
  {SdfConfig, [NoConfig EXCEPT !.defaults = {RestrictionParam, WindowParam}]}

TrackerAccess_RawCheckDone(site) ==
  IF site = "check_done" THEN "raw" ELSE "handle"

\* what a call site calls the tracker's operation on: the thread-safe handle
\* ("handle") or the tracker itself ("raw")
TrackerAccess(site) == "handle"

\* ThreadsafeRestrictionTracker: an operation holds the handle's lock
Enter(thread, t, via) ==
  /\ via = "handle" => lockOwner[t] = "none"
  /\ lockOwner' = IF via = "handle" THEN [lockOwner EXCEPT ![t] = thread]
                  ELSE lockOwner
  /\ inside' = inside \cup {<<thread, t, via>>}

Leave(thread, t) ==
  /\ lockOwner' = IF lockOwner[t] = thread THEN [lockOwner EXCEPT ![t] = "none"]
                  ELSE lockOwner
  /\ inside' = {x \in inside : x[1] # thread}

\* the tracker objects a thread still refers to: through the invoker's field,
\* the local of invoke_process, or the local of try_split and
\* current_element_progress
Referenced(t, field, p, c) ==
  \/ field = t
  \/ p.cur = t /\ p.pc # "idle"
  \/ c.restriction_tracker = t /\ c.pc \notin {"idle", "returned"}

\* a tracker no thread refers to any more is garbage; its slot is cleared
Collect(trs, field, p, c) ==
  [t \in DOMAIN trs |-> IF Referenced(t, field, p, c) THEN trs[t] ELSE NewTracker]

InitSplit ==
  /\ pc = "ready"
  /\ cfg = NoConfig
  /\ \E c \in SdfConfigs : invoker = create_invoker(c)
  /\ DriverIdle
  /\ \E withEstimator \in BOOLEAN : SdfIdle(withEstimator)
  /\ AugIdle

RejectedWithTracker_Never(inv, wv) == FALSE

\* the test of line 633: a tracker, several windows and windowed inputs
RejectedWithTracker(inv, wv) ==
  Len(wv.windows) > 1 /\ inv.has_windowed_inputs

\* DoFnRunner.process / process_with_sized_restriction: invoke_process up to
\* the tracker it works with (lines 616-643), the element set in the context
\* first (623); a fault of the element before has left process and ended the
\* bundle
StartElement ==
  /\ proc.pc = "idle"
  /\ proc.cur < NumElements
  /\ proc.fault = NoFault
  /\ proc' = IF RejectedWithTracker(invoker, SdfElement(proc.cur + 1))
               THEN [ProcIdle EXCEPT !.cur = proc.cur + 1,
                                     !.fault = "NotImplementedError"]
               ELSE [ProcIdle EXCEPT !.pc = "L645", !.cur = proc.cur + 1]
  /\ context' = SdfElement(proc.cur + 1)
  /\ UNCHANGED <<augVars, opVars, threadsafe_restriction_tracker,
                 current_windowed_value, estimator, trackers, lockOwner,
                 inside, ctl>>

\* self.threadsafe_restriction_tracker = ThreadsafeRestrictionTracker(...)
AttachHandle ==
  /\ proc.pc = "L645"
  /\ threadsafe_restriction_tracker' = proc.cur
  /\ proc' = [proc EXCEPT !.pc = IF estimator.present THEN "L652" ELSE "L656",
                          !.trace = Append(@, "attach")]
  /\ UNCHANGED <<augVars, driverVars, current_windowed_value, estimator, trackers,
                 lockOwner, inside, ctl>>

\* self.watermark_estimator.reset()
ResetEstimator ==
  /\ proc.pc = "L652"
  /\ estimator' = [estimator EXCEPT !.watermark = 0, !.resets = @ + 1]
  /\ proc' = [proc EXCEPT !.pc = "L656"]
  /\ UNCHANGED <<augVars, driverVars, threadsafe_restriction_tracker,
                 current_windowed_value, trackers, lockOwner, inside, ctl>>

\* self.watermark_estimator.reset() raises: invoke_process is left before
\* its try statement
ResetEstimatorRaises ==
  /\ proc.pc = "L652"
  /\ proc' = [proc EXCEPT !.pc = "idle", !.fault = "EstimatorError"]
  /\ trackers' = Collect(trackers, threadsafe_restriction_tracker, proc', ctl)
  /\ UNCHANGED <<augVars, driverVars, threadsafe_restriction_tracker,
                 current_windowed_value, estimator, lockOwner, inside, ctl>>

\* self.current_windowed_value = windowed_value, and process is called
SetCurrent ==
  /\ proc.pc = "L656"
  /\ current_windowed_value' = SdfElement(proc.cur)
  /\ proc' = [proc EXCEPT !.pc = "process", !.trace = Append(@, "process")]
  /\ UNCHANGED <<augVars, driverVars, threadsafe_restriction_tracker, estimator,
                 trackers, lockOwner, inside, ctl>>

\* where the processing thread is when it calls the tracker operation
ProcSite(site) ==
  CASE site = "try_claim" -> "process"
    [] site = "defer_remainder" -> "process"
    [] site = "check_done" -> "L755"
    [] site = "deferred_status" -> "L756"

\* the processing thread calls an operation of the element's tracker: the
\* DoFn through its RestrictionTrackerView, or lines 755-756
ProcEnter ==
  \E site \in {"try_claim", "defer_remainder", "check_done", "deferred_status"} :
    /\ proc.pc = ProcSite(site)
    /\ Enter("proc", proc.cur, TrackerAccess(site))
    /\ proc' = [proc EXCEPT !.pc = site]
    /\ UNCHANGED <<augVars, driverVars, threadsafe_restriction_tracker,
                   current_windowed_value, estimator, trackers, ctl>>

\* the DoFn's tracker.try_claim returns
TryClaimLeave ==
  /\ proc.pc = "try_claim"
  /\ Leave("proc", proc.cur)
  /\ trackers' = [trackers EXCEPT ![proc.cur] = TrackerTryClaim(@)]
  /\ proc' = [proc EXCEPT !.pc = "process"]
  /\ UNCHANGED <<augVars, driverVars, threadsafe_restriction_tracker,
                 current_windowed_value, estimator, ctl>>

\* the DoFn's tracker.defer_remainder returns
DeferRemainderLeave ==
  /\ proc.pc = "defer_remainder"
  /\ Leave("proc", proc.cur)
  /\ trackers' = [trackers EXCEPT ![proc.cur] =
                    TrackerDeferRemainder(@, IF estimator.present
                                               THEN estimator.watermark
                                               ELSE NoWatermark)]
  /\ proc' = [proc EXCEPT !.pc = "process"]
  /\ UNCHANGED <<augVars, driverVars, threadsafe_restriction_tracker,
                 current_windowed_value, estimator, ctl>>

\* the DoFn advances its watermark estimator
AdvanceWatermark ==
  /\ proc.pc = "process"
  /\ estimator.present
  /\ estimator.watermark < MaxWatermark
  /\ estimator' = [estimator EXCEPT !.watermark = @ + 1]
  /\ UNCHANGED <<augVars, driverVars, threadsafe_restriction_tracker,
                 current_windowed_value, trackers, lockOwner, inside, proc, ctl>>

\* process returns and its outputs have been dispatched (lines 743-749)
ProcessReturns ==
  /\ proc.pc = "process"
  /\ proc' = [proc EXCEPT !.pc = "L755", !.trace = Append(@, "dispatched")]
  /\ UNCHANGED <<augVars, driverVars, threadsafe_restriction_tracker,
                 current_windowed_value, estimator, trackers, lockOwner,
                 inside, ctl>>

\* self.threadsafe_restriction_tracker.check_done() returns or raises
CheckDoneLeave ==
  /\ proc.pc = "check_done"
  /\ Leave("proc", proc.cur)
  /\ proc' = IF TrackerCheckDoneRaises(trackers[proc.cur])
               THEN [proc EXCEPT !.pc = "L661", !.fault = "ValueError",
                                 !.trace = Append(@, "check_done")]
               ELSE [proc EXCEPT !.pc = "L756",
                                 !.trace = Append(@, "check_done")]
  /\ UNCHANGED <<augVars, driverVars, threadsafe_restriction_tracker,
                 current_windowed_value, estimator, trackers, ctl>>

ResidualOf_Always(p, t, est) ==
  [p EXCEPT !.returned = TRUE,
            !.residual = Descriptor(SdfElement(p.cur), SdfElement(p.cur).value,
                                    t.residual,
                                    IF est.present THEN est.watermark
                                    ELSE NoWatermark),
            !.deferred_watermark = t.watermark]

\* lines 757-767: what _invoke_process_per_window returns for deferred_status
ResidualOf(p, t, est) ==
  IF p.deferred_status
    THEN [p EXCEPT !.returned = TRUE,
                   !.residual =
                     Descriptor(SdfElement(p.cur), SdfElement(p.cur).value,
                                t.residual,
                                IF est.present THEN est.watermark
                                ELSE NoWatermark),
                   !.deferred_watermark = t.watermark]
    ELSE p

\* deferred_status = self.threadsafe_restriction_tracker.deferred_status(),
\* and the rest of _invoke_process_per_window (lines 756-767)
DeferredStatusLeave ==
  /\ proc.pc = "deferred_status"
  /\ Leave("proc", proc.cur)
  /\ proc' = ResidualOf(
               [proc EXCEPT !.pc = "L661",
                            !.deferred_status = trackers[proc.cur].deferred,
                            !.trace = Append(@, "deferred_status")],
               trackers[proc.cur], estimator)
  /\ UNCHANGED <<augVars, driverVars, threadsafe_restriction_tracker,
                 current_windowed_value, estimator, trackers, ctl>>

\* finally: self.threadsafe_restriction_tracker = None
DetachHandle ==
  /\ proc.pc = "L661"
  /\ threadsafe_restriction_tracker' = 0
  /\ proc' = [proc EXCEPT !.pc = "L662", !.trace = Append(@, "detach")]
  /\ UNCHANGED <<augVars, driverVars, current_windowed_value, estimator, trackers,
                 lockOwner, inside, ctl>>

\* finally: self.current_windowed_value = windowed_value; invoke_process ends
RestoreCurrent ==
  /\ proc.pc = "L662"
  /\ current_windowed_value' = SdfElement(proc.cur)
  /\ proc' = [proc EXCEPT !.pc = "idle"]
  /\ trackers' = Collect(trackers, threadsafe_restriction_tracker, proc', ctl)
  /\ UNCHANGED <<augVars, driverVars, threadsafe_restriction_tracker, estimator,
                 lockOwner, inside, ctl>>

\* DoFnRunner.try_split(fraction) is called
TrySplitCall ==
  /\ ctl.pc \in {"idle", "returned"}
  /\ \E fraction \in {0, 1} :
       ctl' = [CtlIdle EXCEPT !.pc = "L770", !.op = "try_split",
                              !.fraction = fraction]
  /\ UNCHANGED <<augVars, driverVars, threadsafe_restriction_tracker,
                 current_windowed_value, estimator, trackers, lockOwner,
                 inside, proc>>

\* restriction_tracker = self.threadsafe_restriction_tracker
ReadTracker ==
  /\ ctl.pc = "L770"
  /\ ctl' = [ctl EXCEPT !.pc = "L771",
                        !.restriction_tracker = threadsafe_restriction_tracker]
  /\ UNCHANGED <<augVars, driverVars, threadsafe_restriction_tracker,
                 current_windowed_value, estimator, trackers, lockOwner,
                 inside, proc>>

\* current_windowed_value = self.current_windowed_value, and the test of 772
ReadCurrent ==
  /\ ctl.pc = "L771"
  /\ ctl' = [ctl EXCEPT
               !.current_windowed_value = current_windowed_value,
               !.pc = IF ctl.restriction_tracker # 0
                         /\ current_windowed_value # NoWindowedValue
                        THEN "L777" ELSE "returned"]
  /\ trackers' = Collect(trackers, threadsafe_restriction_tracker, proc, ctl')
  /\ UNCHANGED <<augVars, driverVars, threadsafe_restriction_tracker,
                 current_windowed_value, estimator, lockOwner, inside, proc>>

\* current_watermark = self.watermark_estimator.current_watermark(), or None
ReadWatermark ==
  /\ ctl.pc = "L777"
  /\ ctl' = [ctl EXCEPT !.pc = "L780",
                        !.current_watermark = IF estimator.present
                                                THEN estimator.watermark
                                                ELSE NoWatermark,
                        !.readResets = estimator.resets]
  /\ UNCHANGED <<augVars, driverVars, threadsafe_restriction_tracker,
                 current_windowed_value, estimator, trackers, lockOwner,
                 inside, proc>>

\* restriction_tracker.try_split(fraction) is entered
TrySplitEnter ==
  /\ ctl.pc = "L780"
  /\ Enter("ctl", ctl.restriction_tracker, TrackerAccess("try_split"))
  /\ ctl' = [ctl EXCEPT !.pc = "try_split"]
  /\ UNCHANGED <<augVars, driverVars, threadsafe_restriction_tracker,
                 current_windowed_value, estimator, trackers, proc>>

\* restriction_tracker.try_split(fraction) returns, and the test of 781
TrySplitLeave ==
  /\ ctl.pc = "try_split"
  /\ Leave("ctl", ctl.restriction_tracker)
  /\ LET sp == TrackerTrySplit(trackers[ctl.restriction_tracker], ctl.fraction)
     IN /\ ctl' = [ctl EXCEPT
                     !.split = [ok |-> sp.ok, primary |-> sp.primary,
                                residual |-> sp.residual],
                     !.pc = IF sp.ok THEN "L783" ELSE "returned"]
        /\ trackers' =
             Collect([trackers EXCEPT ![ctl.restriction_tracker] = sp.tracker],
                     threadsafe_restriction_tracker, proc, ctl')
  /\ UNCHANGED <<augVars, driverVars, threadsafe_restriction_tracker,
                 current_windowed_value, estimator, proc>>

\* element = self.current_windowed_value.value
ReadElement ==
  /\ ctl.pc = "L783"
  /\ ctl' = [ctl EXCEPT !.pc = "L788",
                        !.element = current_windowed_value.value]
  /\ UNCHANGED <<augVars, driverVars, threadsafe_restriction_tracker,
                 current_windowed_value, estimator, trackers, lockOwner,
                 inside, proc>>

\* ((self.current_windowed_value.with_value(((element, primary),
\*   primary_size)), None), None)
BuildPrimary ==
  /\ ctl.pc = "L788"
  /\ ctl' = [ctl EXCEPT !.pc = "L790",
                        !.primary = Descriptor(current_windowed_value,
                                               ctl.element, ctl.split.primary,
                                               NoWatermark)]
  /\ UNCHANGED <<augVars, driverVars, threadsafe_restriction_tracker,
                 current_windowed_value, estimator, trackers, lockOwner,
                 inside, proc>>

ResidualWatermark_ReadAfterSplit(c, est) ==
  IF est.present THEN est.watermark ELSE NoWatermark

ResidualWatermark_EndOfTime(c, est) ==
  IF est.present THEN MaxWatermark ELSE NoWatermark

\* the watermark try_split puts on the residual: its local current_watermark
ResidualWatermark(c, est) == c.current_watermark

\* ((self.current_windowed_value.with_value(((element, residual),
\*   residual_size)), current_watermark), None), and try_split returns
BuildResidual ==
  /\ ctl.pc = "L790"
  /\ ctl' = [ctl EXCEPT !.pc = "returned",
                        !.isNone = FALSE,
                        !.residual = Descriptor(current_windowed_value,
                                                ctl.element, ctl.split.residual,
                                                ResidualWatermark(ctl, estimator))]
  /\ trackers' = Collect(trackers, threadsafe_restriction_tracker, proc, ctl')
  /\ UNCHANGED <<augVars, driverVars, threadsafe_restriction_tracker,
                 current_windowed_value, estimator, lockOwner, inside, proc>>

\* DoFnRunner.current_element_progress() is called
ProgressCall ==
  /\ ctl.pc \in {"idle", "returned"}
  /\ ctl' = [CtlIdle EXCEPT !.pc = "L795", !.op = "current_element_progress"]
  /\ UNCHANGED <<augVars, driverVars, threadsafe_restriction_tracker,
                 current_windowed_value, estimator, trackers, lockOwner,
                 inside, proc>>

\* restriction_tracker = self.threadsafe_restriction_tracker, and the test
ReadTrackerForProgress ==
  /\ ctl.pc = "L795"
  /\ ctl' = [ctl EXCEPT
               !.restriction_tracker = threadsafe_restriction_tracker,
               !.pc = IF threadsafe_restriction_tracker # 0
                        THEN "L797" ELSE "returned"]
  /\ UNCHANGED <<augVars, driverVars, threadsafe_restriction_tracker,
                 current_windowed_value, estimator, trackers, lockOwner,
                 inside, proc>>

\* restriction_tracker.current_progress() is entered
ProgressEnter ==
  /\ ctl.pc = "L797"
  /\ Enter("ctl", ctl.restriction_tracker, TrackerAccess("current_progress"))
  /\ ctl' = [ctl EXCEPT !.pc = "current_progress"]
  /\ UNCHANGED <<augVars, driverVars, threadsafe_restriction_tracker,
                 current_windowed_value, estimator, trackers, proc>>

\* restriction_tracker.current_progress() returns
ProgressLeave ==
  /\ ctl.pc = "current_progress"
  /\ Leave("ctl", ctl.restriction_tracker)
  /\ ctl' = [ctl EXCEPT !.pc = "returned", !.isNone = FALSE,
                        !.progress = trackers[ctl.restriction_tracker].pos]
  /\ trackers' = Collect(trackers, threadsafe_restriction_tracker, proc, ctl')
  /\ UNCHANGED <<augVars, driverVars, threadsafe_restriction_tracker,
                 current_windowed_value, estimator, proc>>

NextSplit ==
  \/ StartElement \/ AttachHandle \/ ResetEstimator \/ ResetEstimatorRaises
  \/ SetCurrent
  \/ ProcEnter \/ TryClaimLeave \/ DeferRemainderLeave \/ AdvanceWatermark
  \/ ProcessReturns \/ CheckDoneLeave \/ DeferredStatusLeave
  \/ DetachHandle \/ RestoreCurrent
  \/ TrySplitCall \/ ReadTracker \/ ReadCurrent \/ ReadWatermark
  \/ TrySplitEnter \/ TrySplitLeave \/ ReadElement \/ BuildPrimary
  \/ BuildResidual
  \/ ProgressCall \/ ReadTrackerForProgress \/ ProgressEnter \/ ProgressLeave

SpecSplit == InitSplit /\ [][NextSplit]_vars

(***************************************************************************)
(* SpecAugment: drivers nested through their receivers.  An operation of    *)
(* the outermost driver is called; an operation that delivers outputs may   *)
(* hand one to a receiver that is another driver, whose receive calls its   *)
(* process; the innermost operation returns or raises, and an exception     *)
(* leaves the operations one after the other.                               *)
(***************************************************************************)
InitAugment ==
  /\ pc = "ready"
  /\ cfg = NoConfig
  /\ invoker = NoInvoker
  /\ DriverIdle
  /\ SdfIdle(FALSE)
  /\ AugIdle

\* an operation of a DoFnRunner is called from outside
CallOperation ==
  /\ runners = <<>>
  /\ \E step_name \in StepNames, op \in Operations :
       runners' = <<[step_name |-> step_name, op |-> op]>>
  /\ exn' = NoExn
  /\ UNCHANGED <<driverVars, sdfVars>>

\* DoFnRunner.receive: the operation in progress delivers an output to a
\* receiver that is a DoFnRunner
ReceiveNested ==
  /\ exn = NoExn
  /\ Len(runners) \in 1..(MaxNesting - 1)
  /\ runners[Len(runners)].op \in Delivering
  /\ \E step_name \in StepNames :
       runners' = Append(runners, [step_name |-> step_name, op |-> "process"])
  /\ UNCHANGED <<driverVars, sdfVars, exn>>

\* the innermost operation raises
RaiseFault ==
  /\ exn = NoExn
  /\ runners # <<>>
  /\ \E rebuildable \in BOOLEAN : exn' = NewExn(rebuildable)
  /\ UNCHANGED <<driverVars, sdfVars, runners>>

\* the exception leaves the innermost operation in progress
Unwind ==
  /\ exn # NoExn
  /\ runners # <<>>
  /\ exn' = LeaveOperation(exn, runners[Len(runners)])
  /\ runners' = SubSeq(runners, 1, Len(runners) - 1)
  /\ UNCHANGED <<driverVars, sdfVars>>

\* the innermost operation returns
ReturnOperation ==
  /\ exn = NoExn
  /\ runners # <<>>
  /\ runners' = SubSeq(runners, 1, Len(runners) - 1)
  /\ UNCHANGED <<driverVars, sdfVars, exn>>

NextAugment ==
  CallOperation \/ ReceiveNested \/ RaiseFault \/ Unwind \/ ReturnOperation

SpecAugment == InitAugment /\ [][NextAugment]_vars

(***************************************************************************)
(* SpecBundle: one driver processes the elements of a bundle one after the  *)
(* other; calls, receivers and log run over the whole bundle.  An element's *)
(* fault leaves process; the caller goes on with the next element.          *)
(***************************************************************************)
BundleConfigs ==
  {NoConfig,
   [NoConfig EXCEPT !.side_inputs = <<"global">>],
   [NoConfig EXCEPT !.side_inputs = <<"windowed">>],
   [NoConfig EXCEPT !.defaults = {WindowParam}],
   [NoConfig EXCEPT !.defaults = {KeyParam}]}

BundleInputValues ==
  {WindowedValue("a", 1, <<"w1">>, "p1"),
   WindowedValue("kv", 1, <<"w1">>, "p1"),
   WindowedValue("kv", 1, <<"w1", "w2">>, "p1")}

\* the result a DoFn returns that yields the objects objs, each once
ResultOf(objs) ==
  [isNone |-> FALSE, items |-> [i \in DOMAIN objs |-> i], objects |-> objs]

BundleResults ==
  LET X == RawResult(FALSE, None, "plain", "x", 0, <<>>, None)
      Y == RawResult(FALSE, None, "wv", "y", 2, <<"w2">>, "p2")
      S == RawResult(TRUE, "side", "wv", "y", 2, <<"w2">>, "p2")
  IN {NoResults, ResultOf(<<X>>), ResultOf(<<X, Y>>), ResultOf(<<Y, X>>),
      ResultOf(<<X, S>>), ResultOf(<<S, X>>)}

\* what goes wrong for an element: nothing, a side input's lookup, or the
\* DoFn's process on its first call
FaultModes == {"none", "lookup", "user"}

InitBundle ==
  /\ pc = "ready"
  /\ cfg = NoConfig
  /\ \E c \in BundleConfigs : invoker = create_invoker(c)
  /\ DriverIdle
  /\ SdfIdle(FALSE)
  /\ AugIdle

\* DoFnRunner.process of the next element of the bundle
ProcessElement ==
  /\ pc = "ready"
  /\ Len(bundle) < BundleSize
  /\ \E wv \in BundleInputValues, res \in BundleResults, mode \in FaultModes :
       LET st0 == [inv |-> invoker, heap |-> res.objects, calls |-> calls,
                   recv |-> receivers, log |-> log, fault |-> NoFault,
                   lookupFails |-> (mode = "lookup"), lookups |-> 0,
                   context |-> context]
           failAt == IF mode = "user" THEN Len(calls) + 1 ELSE 0
           st == invoke_process(wv, res, failAt, st0)
       IN /\ lastOp' = [op |-> "process", input |-> wv, results |-> res,
                        failAt |-> failAt]
          /\ bundle' = Append(bundle,
                              [input |-> wv, results |-> res, mode |-> mode,
                               firstCall |-> Len(calls) + 1,
                               lastCall |-> Len(st.calls), fault |-> st.fault,
                               lookups |-> st.lookups])
          /\ invoker' = st.inv
          /\ heap' = st.heap
          /\ calls' = st.calls
          /\ receivers' = st.recv
          /\ log' = st.log
          /\ fault' = st.fault
          /\ context' = st.context
  /\ UNCHANGED <<pc, cfg, sdfVars, augVars>>

NextBundle == ProcessElement

SpecBundle == InitBundle /\ [][NextBundle]_vars

(***************************************************************************)
(* Properties of the sequential driver (Spec).                              *)
(***************************************************************************)
Done(op) == pc = "done" /\ lastOp.op = op
Items == lastOp.results.items
\* the i-th result as the DoFn method returned it
Returned(i) == lastOp.results.objects[Items[i]]
TagOf(o) == IF o.tagged THEN o.tag ELSE None
ValuesOf(seq) == [j \in DOMAIN seq |-> seq[j].value]
Least(S, dflt) == IF S = {} THEN dflt ELSE CHOOSE i \in S : \A j \in S : i <= j

RECURSIVE IndicesWithTag(_, _, _)
\* the indices i..upto-1 of the results wrapped with tag (None: not wrapped)
IndicesWithTag(tag, i, upto) ==
  IF i >= upto
    THEN <<>>
    ELSE (IF TagOf(Returned(i)) = tag THEN <<i>> ELSE <<>>)
         \o IndicesWithTag(tag, i + 1, upto)

NoExtras(c) ==
  c.side_inputs = <<>> /\ ~c.input_args /\ ~c.input_kwargs
  /\ c.defaults = {} /\ ~c.stateful

\* C1 as stated: create_invoker returns a SimpleInvoker when the process method
\* declares no defaulted parameters, there are no side inputs and no extra
\* positional or keyword arguments and the DoFn is not stateful, and a
\* PerWindowInvoker in every other case.
C1_AsStated ==
  pc = "created" =>
    invoker.kind = (IF NoExtras(cfg) THEN "Simple" ELSE "PerWindow")

\* C1 amended: create_invoker returns a SimpleInvoker when process_invocation
\* is false, or when the process method declares no defaulted parameters, there
\* are no side inputs and no extra positional or keyword arguments and the
\* DoFn is not stateful; in every other case it returns a PerWindowInvoker.
C1_InvokerSelection ==
  pc = "created" =>
    invoker.kind = (IF ~cfg.process_invocation \/ NoExtras(cfg)
                      THEN "Simple" ELSE "PerWindow")

C1_Witness ==
  /\ pc = "created"
  /\ ~cfg.process_invocation
  /\ cfg.defaults # {}
  /\ invoker.kind = "Simple"

\* C2: a PerWindowInvoker whose DoFn requests the Window parameter, given an
\* input with n >= 2 windows, calls process once per window of the input, in
\* order, each call with the input's element value and timestamp; n calls are
\* made when the operation returns, and a fault ends it after the calls made
\* for a prefix of the windows.
C2_OncePerWindow ==
  (/\ Done("process")
   /\ invoker.kind = "PerWindow"
   /\ WindowParam \in invoker.placeholders
   /\ Len(lastOp.input.windows) >= 2)
  => /\ Len(calls) <= Len(lastOp.input.windows)
     /\ fault = NoFault => Len(calls) = Len(lastOp.input.windows)
     /\ \A i \in DOMAIN calls :
          /\ calls[i].window = lastOp.input.windows[i]
          /\ calls[i].element = lastOp.input.value
          /\ calls[i].input.timestamp = lastOp.input.timestamp
          /\ TimestampParam \in invoker.placeholders
               => calls[i].timestamp = lastOp.input.timestamp

C2_Witness ==
  /\ Done("process")
  /\ invoker.kind = "PerWindow"
  /\ WindowParam \in invoker.placeholders
  /\ TimestampParam \in invoker.placeholders
  /\ lastOp.input.windows = <<"w1", "w2">>
  /\ fault = NoFault
  /\ Len(calls) = 2

\* process_outputs ran once, on an input with several windows, over results
\* that are all plain and not wrapped
PlainOutputsOfSeveralWindows ==
  /\ Done("process")
  /\ fault = NoFault
  /\ Len(calls) = 1
  /\ Len(calls[1].input.windows) >= 2
  /\ ~lastOp.results.isNone
  /\ Items # <<>>
  /\ \A i \in DOMAIN Items : Returned(i).kind = "plain" /\ ~Returned(i).tagged

\* C3 as stated: for an input with two windows and a plain result, the main
\* receiver gets exactly two WindowedValues, one per input window, each with
\* the emitted value and the input's timestamp.
C3_AsStated ==
  (PlainOutputsOfSeveralWindows /\ Len(Items) = 1
   /\ Len(calls[1].input.windows) = 2)
  => /\ Len(receivers[None]) = 2
     /\ \A i \in 1..2 :
          /\ receivers[None][i].value = Returned(1).value
          /\ receivers[None][i].timestamp = calls[1].input.timestamp
          /\ receivers[None][i].windows = <<calls[1].input.windows[i]>>

\* C3 amended: for an input with two (or more) windows, each plain result is
\* delivered to the main receiver as exactly one WindowedValue, which carries
\* the emitted value and the input's timestamp, pane info and all of the
\* input's windows; no other receiver gets anything.
C3_OnePerResult ==
  PlainOutputsOfSeveralWindows
  => /\ Len(receivers[None]) = Len(Items)
     /\ \A i \in DOMAIN Items :
          receivers[None][i] =
            WindowedValue(Returned(i).value, calls[1].input.timestamp,
                          calls[1].input.windows, calls[1].input.pane_info)
     /\ \A tg \in RegisteredTags : receivers[tg] = <<>>

C3_Witness ==
  /\ PlainOutputsOfSeveralWindows
  /\ Len(Items) = 1
  /\ calls[1].input.windows = <<"w1", "w2">>
  /\ Len(receivers[None]) = 1

\* the first result process_outputs cannot route: its tag is no string, or no
\* receiver is registered for it
FirstUnroutable ==
  Least({i \in DOMAIN Items :
           Returned(i).tagged /\ Returned(i).tag \notin RegisteredTags},
        Len(Items) + 1)

\* C4: in process_outputs a result whose tag is not a string raises TypeError
\* and a result whose tag has no receiver raises a lookup fault (KeyError);
\* that result reaches no receiver, the results before it are routed, an
\* untagged one to the main receiver only and a tagged one to its tag's
\* receiver only, in the order they were returned.
C4_TagRouting ==
  (Done("process") /\ ~lastOp.results.isNone /\ Len(calls) >= 1
   /\ fault \notin {"UserError", "ValueError"})
  => /\ fault = (IF FirstUnroutable > Len(Items) THEN NoFault
                 ELSE IF Returned(FirstUnroutable).tag = NonStringTag
                   THEN "TypeError" ELSE "KeyError")
     /\ fault # NoFault => Len(calls) = 1
     /\ \A tg \in ReceiverTags :
          ValuesOf(receivers[tg]) =
            Repeat([j \in DOMAIN IndicesWithTag(tg, 1, FirstUnroutable) |->
                      Returned(IndicesWithTag(tg, 1, FirstUnroutable)[j]).value],
                   Len(calls))

C4_Witness ==
  /\ Done("process")
  /\ fault = "KeyError"
  /\ Len(Items) = 2
  /\ ~Returned(1).tagged
  /\ Returned(2).tag = "errors"
  /\ Len(receivers[None]) = 1
  /\ receivers["side"] = <<>>

\* C5 as stated: start succeeds exactly when start_bundle emits no output: a
\* result that is absent, or present but an empty sequence, is accepted, and
\* any emitted output makes start fail with RuntimeError, nothing delivered.
C5_StartAcceptsNoOutput ==
  Done("start")
  => /\ fault = (IF lastOp.results.isNone \/ Items = <<>>
                   THEN NoFault ELSE "RuntimeError")
     /\ receivers = NoReceived

\* the first result finish_bundle_outputs does not deliver
FirstUndelivered ==
  Least({i \in DOMAIN Items :
           \/ Returned(i).kind # "wv"
           \/ Returned(i).tagged /\ Returned(i).tag \notin RegisteredTags},
        Len(Items) + 1)

\* C6: in finish, each output that is a WindowedValue is delivered unchanged
\* to its tag's receiver (the main receiver if it has no tag), in order, up to
\* the first output that faults; an output that is not a WindowedValue (and
\* whose tag, if it has one, is a string) raises RuntimeError; no output that
\* is not a WindowedValue and no changed WindowedValue reaches a receiver.
C6_FinishOutputs ==
  (Done("finish") /\ ~lastOp.results.isNone)
  => /\ \A tg \in ReceiverTags :
          receivers[tg] =
            [j \in DOMAIN IndicesWithTag(tg, 1, FirstUndelivered) |->
               AsWindowedValue(Returned(IndicesWithTag(tg, 1, FirstUndelivered)[j]))]
     /\ heap = lastOp.results.objects
     /\ \A i \in DOMAIN Items :
          (/\ i = FirstUndelivered
           /\ Returned(i).kind # "wv"
           /\ Returned(i).tagged => Returned(i).tag # NonStringTag)
          => fault = "RuntimeError"
     /\ FirstUndelivered > Len(Items) => fault = NoFault

C6_Witness ==
  /\ Done("finish")
  /\ Len(Items) = 2
  /\ Returned(1).kind = "wv" /\ Returned(1).tag = "side"
  /\ Returned(2).kind = "plain" /\ ~Returned(2).tagged
  /\ fault = "RuntimeError"
  /\ receivers["side"] = <<AsWindowedValue(Returned(1))>>
  /\ receivers[None] = <<>>

(***************************************************************************)
(* Properties of the concurrent splittable run (SpecSplit).                 *)
(***************************************************************************)
\* try_split has returned to the control thread
SplitReturned == ctl.pc = "returned" /\ ctl.op = "try_split"

\* the descriptor of restriction r of the element that tracker t belongs to
DescriptorOf(t, r, wm) == Descriptor(SdfElement(t), SdfElement(t).value, r, wm)

\* C7: try_split returns nothing when it found no handle attached or when the
\* tracker declined; otherwise it returns a primary and a residual that are
\* the windowed value of the element whose tracker was split, re-valued to
\* ((element, restriction), restriction_size(element, restriction)).
C7_AsStated ==
  SplitReturned
  => /\ ctl.isNone <=> (ctl.restriction_tracker = 0 \/ ~ctl.split.ok)
     /\ ~ctl.isNone
        => /\ ctl.primary = DescriptorOf(ctl.restriction_tracker,
                                         ctl.split.primary, ctl.primary.watermark)
           /\ ctl.residual = DescriptorOf(ctl.restriction_tracker,
                                          ctl.split.residual,
                                          ctl.residual.watermark)

\* C8: the watermark on the residual that try_split returns is the one it
\* read from the estimator before it called the tracker's try_split, whatever
\* the estimator did since; it is none without an estimator; the primary has
\* no watermark.
C8_WatermarkReadBeforeSplit ==
  (SplitReturned /\ ~ctl.isNone)
  => /\ ctl.residual.watermark = ctl.current_watermark
     /\ ~estimator.present => ctl.residual.watermark = NoWatermark
     /\ ctl.primary.watermark = NoWatermark

C8_Witness ==
  /\ SplitReturned /\ ~ctl.isNone
  /\ estimator.present
  /\ ctl.current_watermark = 1
  /\ ctl.residual.watermark = 1
  /\ estimator.watermark = 2

C10_ThroughHandle ==
  /\ \A x \in inside : x[3] = "handle" /\ lockOwner[x[2]] = x[1]
  /\ \A x, y \in inside : x[2] = y[2] => x = y

C10_Witness ==
  /\ inside = {<<"ctl", proc.cur, "handle">>}
  /\ ctl.pc = "try_split"
  /\ proc.pc = "L755"
  /\ threadsafe_restriction_tracker = proc.cur

(***************************************************************************)
(* Properties of faults leaving nested drivers (SpecAugment).               *)
(***************************************************************************)
\* an exception has left the outermost driver
FaultLeft == runners = <<>> /\ exn # NoExn

\* the step names of the drivers, innermost first, whose _reraise_augmented
\* the exception went through with a step name known
NamedAugmenters(e) ==
  SelectSeq(e.through, LAMBDA r : r.op \in Augmenting /\ r.step_name # None)

\* C11: a fault that leaves a driver that has a step name, through any of its
\* operations, carries exactly one annotation.
C11_AsStated ==
  \A i \in DOMAIN exn.through :
    exn.through[i].step_name # None => Len(exn.annotations) = 1

\* C12: a fault that went through no augmenter with a step name is unchanged;
\* otherwise it is tagged and carries exactly one annotation, the step name of
\* the innermost driver that has one, however many drivers it went through.
C12_OneAnnotation ==
  exn # NoExn
  => IF NamedAugmenters(exn) = <<>>
       THEN exn = [NewExn(exn.rebuildable) EXCEPT !.through = exn.through]
       ELSE /\ exn.annotations = <<NamedAugmenters(exn)[1].step_name>>
            /\ exn.tagged

C12_Witness ==
  /\ FaultLeft
  /\ Len(exn.through) = 2
  /\ exn.through[1] = [step_name |-> "s1", op |-> "process"]
  /\ exn.through[2] = [step_name |-> "s2", op |-> "process"]
  /\ exn.annotations = <<"s1">>

(***************************************************************************)
(* Properties of a bundle processed element by element (SpecBundle).        *)
(***************************************************************************)
\* the calls of DoFn.process made for the k-th element of the bundle
CallsOf(k) == bundle[k].firstCall .. bundle[k].lastCall
\* the element a logged event belongs to
ElementOf(e) == CHOOSE k \in DOMAIN bundle : e.n \in CallsOf(k)
\* what the receivers were given by the n-th call's process_outputs, in order
Deliveries(n) == SelectSeq(log, LAMBDA e : e.ev = "recv" /\ e.n = n)

\* C13: the outputs of each call are delivered in the order the DoFn returned
\* them (all of them unless the element faulted), and every call and delivery
\* of an element comes before every call and delivery of the element after it.
C13_InOrder ==
  /\ \A k \in DOMAIN bundle : \A n \in CallsOf(k) :
       LET items == bundle[k].results.items
           objs == bundle[k].results.objects
       IN /\ Len(Deliveries(n)) <= Len(items)
          /\ bundle[k].fault = NoFault => Len(Deliveries(n)) = Len(items)
          /\ \A j \in DOMAIN Deliveries(n) :
               /\ Deliveries(n)[j].value = objs[items[j]].value
               /\ Deliveries(n)[j].tag = TagOf(objs[items[j]])
  /\ \A i, j \in DOMAIN log :
       ElementOf(log[i]) < ElementOf(log[j]) => i < j

C13_Witness ==
  /\ Len(bundle) = 2
  /\ bundle[1].fault = NoFault /\ bundle[2].fault = NoFault
  /\ Len(bundle[1].results.items) = 2 /\ Len(bundle[2].results.items) = 2
  /\ Len(receivers[None]) = 3
  /\ Len(receivers["side"]) = 1
  /\ Len(log) = 6

\* the arguments an invoker that has processed no element passes for wv
FreshArgs(wv) ==
  LET inv == IF invoker.kind = "Simple"
               THEN invoker
               ELSE [invoker EXCEPT
                       !.cache_globally_windowed_args = ~invoker.has_windowed_inputs]
  IN BindArgs(inv, wv, BindSideInputs(inv, wv, FALSE).side)

\* C14: whatever faulted for the elements before, DoFn.process is called with
\* the arguments that an invoker with no element behind it would bind.
C14_AsStated ==
  invoker.kind = "PerWindow"
  => \A n \in DOMAIN calls : calls[n] = FreshArgs(calls[n].input)

\* the invoker of C21: a PerWindowInvoker with side inputs, all of them
\* globally windowed, no window parameter and no state
CachesSideInputs ==
  /\ invoker.kind = "PerWindow"
  /\ invoker.side_inputs # <<>>
  /\ ~invoker.has_windowed_inputs

\* the side inputs looked up in the global window
GlobalSideInputs ==
  [i \in DOMAIN invoker.side_inputs |->
     SideInputLookup(invoker.side_inputs[i], GlobalWindow)]

\* C21, as stated: only the first element of such an invoker looks side
\* inputs up; every later element causes no lookup and is invoked with the
\* side-input values of the global window.
C21_AsStated ==
  CachesSideInputs
  => \A k \in DOMAIN bundle :
       k > 1 => /\ bundle[k].lookups = 0
                /\ \A n \in CallsOf(k) : calls[n].side = GlobalSideInputs

\* no element after the first looks a side input up
C21_NoLaterLookup ==
  CachesSideInputs => \A k \in DOMAIN bundle : k > 1 => bundle[k].lookups = 0

\* the cached values are used whenever the first element's lookup succeeded
C21_CachedWhenLookedUp ==
  (CachesSideInputs /\ bundle # <<>> /\ bundle[1].mode # "lookup")
  => \A k \in DOMAIN bundle : \A n \in CallsOf(k) :
       calls[n].side = GlobalSideInputs

(***************************************************************************)
(* Properties of the processing thread of the splittable run (SpecSplit).   *)
(***************************************************************************)
\* C15: an element in several windows, given to an invoker with windowed
\* inputs and a tracker, ends in NotImplementedError with no handle attached,
\* process not called, nothing dispatched and its tracker untouched.
C15_RejectsSeveralWindows ==
  (proc.cur >= 1 /\ Len(SdfElement(proc.cur).windows) > 1
     /\ invoker.has_windowed_inputs)
  => /\ proc.pc = "idle"
     /\ proc.fault = "NotImplementedError"
     /\ proc.trace = <<>>
     /\ threadsafe_restriction_tracker = 0
     /\ current_windowed_value # SdfElement(proc.cur)
     /\ trackers[proc.cur] = NewTracker

C15_Witness ==
  /\ proc.cur = 2
  /\ current_windowed_value = SdfElement(1)
  /\ invoker.has_windowed_inputs
  /\ proc.fault = "NotImplementedError"

\* C16: when _invoke_process_per_window has passed check_done without a fault,
\* it has dispatched the outputs, then called check_done, then read the
\* deferred status; it returns a residual exactly when the tracker has deferred
\* work: the input re-valued to ((element, deferred restriction), size) with
\* the estimator's watermark, and the deferred watermark.
C16_ResidualWhenDeferred ==
  (proc.pc = "L661" /\ proc.fault = NoFault)
  => /\ proc.trace =
          <<"attach", "process", "dispatched", "check_done", "deferred_status">>
     /\ proc.returned <=> trackers[proc.cur].deferred
     /\ ~proc.returned => proc.residual = NoDescriptor
     /\ proc.returned
        => /\ proc.residual =
                [timestamp |-> SdfElement(proc.cur).timestamp,
                 windows |-> SdfElement(proc.cur).windows,
                 pane_info |-> SdfElement(proc.cur).pane_info,
                 element |-> SdfElement(proc.cur).value,
                 restriction |-> trackers[proc.cur].residual,
                 size |-> restriction_size(SdfElement(proc.cur).value,
                                           trackers[proc.cur].residual),
                 watermark |-> IF estimator.present THEN estimator.watermark
                               ELSE NoWatermark]
           /\ proc.deferred_watermark = trackers[proc.cur].watermark

C16_Witness ==
  /\ proc.pc = "L661" /\ proc.fault = NoFault
  /\ proc.returned
  /\ proc.residual.restriction = Restriction(1, 2)
  /\ estimator.present
  /\ proc.residual.watermark = 1

\* C18, as stated: whenever no invoke_process is running, no handle is
\* attached, and a try_split or current_element_progress that found none
\* returns nothing.
C18_AsStated ==
  /\ proc.pc = "idle" => threadsafe_restriction_tracker = 0
  /\ (ctl.pc = "returned" /\ ctl.restriction_tracker = 0) => ctl.isNone

(***************************************************************************)
(* Properties of one process call of the sequential driver (Spec).          *)
(***************************************************************************)
\* the last operation was process and its input was exploded into one call
\* per window
Exploded ==
  /\ lastOp.op = "process"
  /\ invoker.kind = "PerWindow" /\ invoker.has_windowed_inputs
  /\ Len(lastOp.input.windows) # 1

\* C17, as stated: the windowed value of the i-th per-window call of an
\* exploded input carries the input's value, timestamp and pane info and the
\* i-th window alone.
C17_AsStated ==
  Exploded
  => \A i \in DOMAIN calls :
       calls[i].input =
         WindowedValue(lastOp.input.value, lastOp.input.timestamp,
                       <<lastOp.input.windows[i]>>, lastOp.input.pane_info)

\* C19, as stated: within one process call every call of the process method
\* comes before every delivery to a receiver.
C19_AsStated ==
  lastOp.op = "process"
  => \A i, j \in DOMAIN log :
       (log[i].ev = "call" /\ log[j].ev = "recv") => i < j

\* the calls of the process method among the first j events of the log
CallsBefore(j) == Cardinality({i \in 1..j : log[i].ev = "call"})

\* C19, amended: every output is delivered after the call that produced it
\* and before the call for the next window; the calls are made in the order
\* of the input's windows.
C19_CallBeforeItsOutputs ==
  lastOp.op = "process"
  => /\ \A j \in DOMAIN log :
          log[j].ev = "recv"
          => /\ log[j].n = CallsBefore(j)
             /\ log[j].n >= 1
     /\ \A j \in DOMAIN log : log[j].ev = "call" => log[j].n = CallsBefore(j)
     /\ Exploded => \A i \in DOMAIN calls :
                      calls[i].input.windows = <<lastOp.input.windows[i]>>

C19_Witness ==
  /\ Exploded
  /\ Len(calls) = 2
  /\ Len(log) = 4
  /\ log[1].ev = "call" /\ log[2].ev = "recv"
  /\ log[3].ev = "call" /\ log[4].ev = "recv"

\* the result objects delivered under tg, in the order they were emitted
ItemsTo(res, tg) ==
  SelectSeq(res.items, LAMBDA id : TagOf(res.objects[id]) = tg)

\* the windows a result object has before process_outputs multiplies them
ResultWindows(obj) ==
  IF obj.kind = "wv" THEN obj.windows ELSE WindowFnAssign(obj.timestamp)

\* C20, as stated: when one call has processed an input with n windows, every
\* delivered WindowedValue or timestamped result with k windows carries k*n
\* windows (its own k when n = 1), however often its object is emitted.
C20_AsStated ==
  (lastOp.op = "process" /\ fault = NoFault
     /\ Len(calls) = 1 /\ calls[1].input = lastOp.input)
  => \A tg \in ReceiverTags :
       LET ids == ItemsTo(lastOp.results, tg)
       IN \A k \in DOMAIN receivers[tg] :
            LET obj == lastOp.results.objects[ids[k]]
            IN obj.kind \in {"wv", "tv"}
               => Len(receivers[tg][k].windows) =
                    Len(ResultWindows(obj)) * Len(lastOp.input.windows)

\* what the context held at each call of the process method of the last
\* operation
ContextAtCalls ==
  \A j \in DOMAIN log : log[j].ev = "call" => log[j].context = lastOp.input

\* what the context held while a bundle method ran and its outputs were
\* delivered
NoElementInBundleMethod ==
  /\ context = NoWindowedValue
  /\ \A j \in DOMAIN log : log[j].context = NoWindowedValue

\* C22, as stated: at every call of the process method for an element the
\* context holds that element, with either invoker; while start or finish
\* runs it holds no element.
C22_AsStated ==
  /\ lastOp.op = "process" => ContextAtCalls
  /\ lastOp.op \in {"start", "finish"} => NoElementInBundleMethod

\* what holds of the context: a PerWindowInvoker sets it to the element, a
\* SimpleInvoker leaves it alone, start and finish clear it
C22_PerWindowOnly ==
  /\ (lastOp.op = "process" /\ invoker.kind = "PerWindow") => ContextAtCalls
  /\ (lastOp.op = "process" /\ invoker.kind = "Simple")
     => \A j \in DOMAIN log : log[j].context = NoWindowedValue
  /\ lastOp.op \in {"start", "finish"} => NoElementInBundleMethod

(***************************************************************************)
(* Properties of try_split and current_element_progress running beside the  *)
(* processing thread (SpecSplit).                                           *)
(***************************************************************************)
\* d carries the element and the windowed value of the invocation of tracker t
CarriesElementOf(d, t) ==
  /\ d.element = SdfElement(t).value
  /\ d.timestamp = SdfElement(t).timestamp
  /\ d.windows = SdfElement(t).windows
  /\ d.pane_info = SdfElement(t).pane_info

\* C23, as stated: the primary and the residual that try_split returns carry
\* the element and the windowed value of the invocation whose tracker made
\* the split, not those of the element before or after it.
C23_AsStated ==
  (SplitReturned /\ ~ctl.isNone)
  => /\ CarriesElementOf(ctl.primary, ctl.restriction_tracker)
     /\ CarriesElementOf(ctl.residual, ctl.restriction_tracker)


\* the invocation of element t has run check_done, read the deferred status
\* and detached the handle
Completed(t) ==
  \/ proc.cur > t
  \/ /\ proc.cur = t
     /\ {"check_done", "deferred_status", "detach"}
          \subseteq {proc.trace[i] : i \in DOMAIN proc.trace}

\* the control thread calls into the tracker it holds
CallsIntoTracker == TrySplitEnter \/ ProgressEnter

\* C24, as stated: the control thread never calls try_split or
\* current_progress of a tracker whose element's invocation has completed.
C24_AsStated ==
  [][CallsIntoTracker => ~Completed(ctl.restriction_tracker)]_vars

\* what holds of such a late call: the tracker of a completed element has
\* nothing left and declines the split
C24_LateSplitDeclined ==
  [][(TrySplitLeave /\ Completed(ctl.restriction_tracker))
       => ~ctl'.split.ok]_vars

====
